---- MODULE Spec2Model ----
(***************************************************************************)
(* Model of the digital-store backend.                                     *)
(*                                                                         *)
(*   src/backend/schemas.py   Product and Order validation                 *)
(*   src/backend/database.py  get_db, create_document, get_documents       *)
(*   src/backend/main.py      /test, /products, /products/{slug}, /checkout *)
(*   src/main.py              /subscribe, /payments/upi/create-order,      *)
(*                            /payments/razorpay/verify-signature          *)
(*                                                                         *)
(* Python values that may be None or of more than one type are tagged      *)
(* records [t |-> <type>, v |-> <value>]; the tag is what isinstance, the  *)
(* truth test and the BSON encoder look at.                                *)
(***************************************************************************)
EXTENDS Integers, Sequences, FiniteSets, TLC

VARIABLES
    db,         \* database.py _db: 0 for None, else the handle's number
    nclient,    \* number of AsyncIOMotorClient objects constructed so far
    product,    \* collection "product", in insertion (natural) order
    order,      \* collection "order", in insertion (natural) order
    req,        \* the request handled last
    resp,       \* its response
    pc,         \* per coroutine: where the request is suspended
    local,      \* per coroutine: the locals that live across the await
    env,        \* the process environment (os.getenv) of src/main.py
    calls       \* outbound calls (requests.post) the last request made

vars == <<db, nclient, product, order, req, resp, pc, local, env, calls>>

(***************************************************************************)
(* Bounds.                                                                 *)
(***************************************************************************)
MaxDocs == 2        \* documents in the store, both collections together
NProcs == 2         \* requests in flight at once

Procs == 1..NProcs
Times == {1, 2}     \* values datetime.utcnow() may return

(***************************************************************************)
(* Python values.                                                          *)
(***************************************************************************)
PyNone == [t |-> "None", v |-> ""]
PyStr(s) == [t |-> "str", v |-> s]
PyUrl(s) == [t |-> "Url", v |-> s]
NoNum == [t |-> "None", v |-> 0]
PyNum(n) == [t |-> "num", v |-> n]

\* bool(x): None and the empty string are false, any object (a Url) is true
Truthy(x) == x.t = "Url" \/ (x.t = "str" /\ x.v # "")

StartsWith(s, p) == Len(s) >= Len(p) /\ SubSeq(s, 1, Len(p)) = p

(***************************************************************************)
(* schemas.py                                                              *)
(***************************************************************************)
Categories == {"course", "prompt", "video", "template", "bundle", "other"}
Levels == {"beginner", "intermediate", "advanced"}
Statuses == {"pending", "paid", "failed"}

\* pydantic HttpUrl: an http(s) scheme followed by a host
HttpUrlOk(s) ==
    \/ StartsWith(s, "http://") /\ Len(s) > Len("http://")
    \/ StartsWith(s, "https://") /\ Len(s) > Len("https://")

\* Optional[HttpUrl]: None stays None, a string is parsed into a Url object
OptUrlOk(x) == x.t = "None" \/ (x.t = "str" /\ HttpUrlOk(x.v))
ParseOptUrl(x) == IF x.t = "None" THEN PyNone ELSE PyUrl(x.v)

\* class Product: the Field constraints
ProductOk(raw) ==
    /\ Len(raw.title) >= 3 /\ Len(raw.title) <= 120
    /\ Len(raw.slug) >= 3 /\ Len(raw.slug) <= 140
    /\ Len(raw.description) >= 20 /\ Len(raw.description) <= 5000
    /\ raw.price >= 0
    /\ raw.category.t = "None" \/ raw.category.v \in Categories
    /\ raw.level.t = "None" \/ raw.level.v \in Levels
    /\ OptUrlOk(raw.cover_url)

\* Product(...).model_dump(): defaults filled in, cover_url a Url object
ProductDump(raw) ==
    [title |-> raw.title, slug |-> raw.slug, description |-> raw.description,
     price |-> raw.price,
     category |-> IF raw.category.t = "None" THEN "other" ELSE raw.category.v,
     level |-> raw.level,
     cover_url |-> ParseOptUrl(raw.cover_url)]

\* class Order
OrderOk(raw) ==
    /\ raw.status.t = "None" \/ raw.status.v \in Statuses
    /\ OptUrlOk(raw.download_url)

OrderDump(raw) ==
    [product_id |-> raw.product_id, email |-> raw.email, amount |-> raw.amount,
     status |-> IF raw.status.t = "None" THEN "pending" ELSE raw.status.v,
     download_url |-> ParseOptUrl(raw.download_url)]

(***************************************************************************)
(* database.py                                                             *)
(***************************************************************************)
\* get_db that connects whether or not _db is set
AlwaysConnect(d) == TRUE

\* get_db: "if _db is None"
NeedsConnect(d) == d = 0

\* get_db has no await in its body: the test and the two assignments run in
\* one turn of the event loop. Returns <<_db', nclient'>>; the handle of the
\* n-th client is n.
get_db(d, n) == IF NeedsConnect(d) THEN <<n + 1, n + 1>> ELSE <<d, n>>

\* datetime.isoformat()
IsoFormat(t) == "T" \o ToString(t)

\* the ObjectId insert_one assigns: unique, documents are never removed
ObjectId(p, o) == [t |-> "ObjectId", v |-> ToString(Len(p) + Len(o) + 1)]

\* str(ObjectId)
StrId(oid) == [t |-> "str", v |-> oid.v]

\* what bson can encode: str, numbers, None; not a pydantic Url object
BsonEncodable(data) ==
    \A k \in DOMAIN data \cap {"cover_url", "download_url"} : data[k].t # "Url"

\* create_document reading the clock once per timestamp
StampTwice(data, now) ==
    data @@ [created_at |-> IsoFormat(now), updated_at |-> IsoFormat(now + 1)]

\* create_document: payload = {**data, "created_at": now, "updated_at": now}
Stamp(data, now) ==
    data @@ [created_at |-> IsoFormat(now), updated_at |-> IsoFormat(now)]

WithId(doc, id) == [k \in DOMAIN doc \cup {"_id"} |->
                       IF k = "_id" THEN id ELSE doc[k]]

\* get_documents: d["_id"] = str(d["_id"])
Stringified(doc) == WithId(doc, StrId(doc["_id"]))

\* a find() that drops the slug key of its filter
MatchesIgnoringSlug(doc, f) ==
    /\ f.category.t = "None" \/ doc.category = f.category.v
    /\ f.level.t = "None" \/ (doc.level.t = "str" /\ doc.level.v = f.level.v)
    /\ f.gte.t = "None" \/ doc.price >= f.gte.v
    /\ f.lte.t = "None" \/ doc.price <= f.lte.v

\* one document against a find() filter: equality on category, level and
\* slug, $gte/$lte on price; a key the filter does not hold is tagged None
NoFilter == [category |-> PyNone, level |-> PyNone, slug |-> PyNone,
             gte |-> NoNum, lte |-> NoNum]

Matches(doc, f) ==
    /\ f.category.t = "None" \/ doc.category = f.category.v
    /\ f.level.t = "None" \/ (doc.level.t = "str" /\ doc.level.v = f.level.v)
    /\ f.slug.t = "None" \/ doc.slug = f.slug.v
    /\ f.gte.t = "None" \/ doc.price >= f.gte.v
    /\ f.lte.t = "None" \/ doc.price <= f.lte.v

RECURSIVE Find(_, _)
Find(coll, f) ==
    IF coll = <<>> THEN <<>>
    ELSE IF Matches(Head(coll), f) THEN <<Head(coll)>> \o Find(Tail(coll), f)
    ELSE Find(Tail(coll), f)

\* cursor.limit(n): 0 is no limit, a negative n is a limit of -n
Limit(docs, n) ==
    LET m == IF n < 0 THEN 0 - n ELSE n
    IN  IF m = 0 \/ m >= Len(docs) THEN docs ELSE SubSeq(docs, 1, m)

get_documents(coll, f, limit) ==
    LET found == Limit(Find(coll, f), limit)
    IN  [i \in 1..Len(found) |-> Stringified(found[i])]

(***************************************************************************)
(* backend/main.py: the handlers, one action each.                         *)
(***************************************************************************)
DefaultLimit == 50

Response(status, docs) == [status |-> status, docs |-> docs]

\* list_products testing the bounds with "if min_price:" / "if max_price:"
ListFilterTruthyBounds(category, level, min_price, max_price) ==
    [category |-> IF Truthy(category) THEN category ELSE PyNone,
     level |-> IF Truthy(level) THEN level ELSE PyNone,
     slug |-> PyNone,
     gte |-> IF min_price.t # "None" /\ min_price.v # 0 THEN min_price ELSE NoNum,
     lte |-> IF max_price.t # "None" /\ max_price.v # 0 THEN max_price ELSE NoNum]

\* list_products: filter_q from the query parameters
ListFilter(category, level, min_price, max_price) ==
    [category |-> IF Truthy(category) THEN category ELSE PyNone,
     level |-> IF Truthy(level) THEN level ELSE PyNone,
     slug |-> PyNone,
     gte |-> IF min_price.t # "None" THEN min_price ELSE NoNum,
     lte |-> IF max_price.t # "None" THEN max_price ELSE NoNum]

\* get_product querying with an empty filter
SlugFilterDropped(slug) == [category |-> PyNone, level |-> PyNone, slug |-> PyNone,
                            gte |-> NoNum, lte |-> NoNum]

\* get_product: {"slug": slug}
SlugFilter(slug) == [NoFilter EXCEPT !.slug = PyStr(slug)]

\* get_product: "if not items"
NotFound(items) == items = <<>>

DownloadPrefix == "https://example.com/download/"

\* checkout that keeps the status submitted
PaidAsSubmitted(dump) ==
    [dump EXCEPT !.download_url = IF Truthy(dump.download_url)
                                  THEN dump.download_url
                                  ELSE PyStr("https://example.com/download/"
                                             \o dump.product_id)]

\* checkout: paid["status"] = "paid"; paid["download_url"] = ... or ...
Paid(dump) ==
    [dump EXCEPT !.status = "paid",
                 !.download_url = IF Truthy(dump.download_url)
                                  THEN dump.download_url
                                  ELSE PyStr(DownloadPrefix \o dump.product_id)]

\* create_document(collection_name, data) with utcnow() = now, as the whole
\* of a handler: get_db, the stamped payload, insert_one, the returned payload
create_document(name, data, now) ==
    LET g == get_db(db, nclient)
        payload == Stamp(data, now)
        oid == ObjectId(product, order)
    IN  /\ db' = g[1]
        /\ nclient' = g[2]
        /\ IF BsonEncodable(payload)
           THEN /\ Len(product) + Len(order) < MaxDocs
                /\ IF name = "product"
                   THEN /\ product' = Append(product, WithId(payload, oid))
                        /\ order' = order
                   ELSE /\ order' = Append(order, WithId(payload, oid))
                        /\ product' = product
                /\ resp' = Response(200, <<WithId(payload, StrId(oid))>>)
           ELSE \* bson.errors.InvalidDocument out of insert_one: a 500
                /\ UNCHANGED <<product, order>>
                /\ resp' = Response(500, <<>>)

\* a get_documents("product", ...) call as the whole of a handler
Read(f, limit) ==
    LET g == get_db(db, nclient)
    IN  /\ db' = g[1]
        /\ nclient' = g[2]
        /\ UNCHANGED <<product, order>>

Unprocessable ==
    /\ resp' = Response(422, <<>>)
    /\ UNCHANGED <<db, nclient, product, order>>

Test ==
    /\ req' = [op |-> "test"]
    /\ Read(NoFilter, 1)
    /\ resp' = Response(200, get_documents(product, NoFilter, 1))
    /\ UNCHANGED <<pc, local, env, calls>>

CreateProduct(raw, now) ==
    /\ req' = [op |-> "create_product", raw |-> raw]
    /\ IF ProductOk(raw)
       THEN create_document("product", ProductDump(raw), now)
       ELSE Unprocessable
    /\ UNCHANGED <<pc, local, env, calls>>

ListProducts(category, min_price, max_price, level, limit) ==
    LET filter_q == ListFilter(category, level, min_price, max_price)
    IN  /\ req' = [op |-> "list_products", category |-> category,
                   min_price |-> min_price, max_price |-> max_price,
                   level |-> level, limit |-> limit]
        /\ Read(filter_q, limit)
        /\ resp' = Response(200, get_documents(product, filter_q, limit))
        /\ UNCHANGED <<pc, local, env, calls>>

GetProduct(slug) ==
    LET items == get_documents(product, SlugFilter(slug), 1)
    IN  /\ req' = [op |-> "get_product", slug |-> slug]
        /\ Read(SlugFilter(slug), 1)
        /\ resp' = IF NotFound(items) THEN Response(404, <<>>)
                   ELSE Response(200, <<items[1]>>)
        /\ UNCHANGED <<pc, local, env, calls>>

Checkout(raw, now) ==
    /\ req' = [op |-> "checkout", raw |-> raw]
    /\ IF OrderOk(raw)
       THEN create_document("order", Paid(OrderDump(raw)), now)
       ELSE Unprocessable
    /\ UNCHANGED <<pc, local, env, calls>>

(***************************************************************************)
(* The requests the model sends.                                           *)
(***************************************************************************)
Desc == "Twenty characters or more of text."

RawProduct(title, slug, description, price, category, level, cover_url) ==
    [title |-> title, slug |-> slug, description |-> description,
     price |-> price, category |-> category, level |-> level,
     cover_url |-> cover_url]

ProductInputs ==
    { RawProduct("Intro", "intro", Desc, 0, PyStr("course"), PyStr("beginner"), PyNone),
      RawProduct("Intro II", "intro", Desc, 15, PyNone, PyNone, PyNone),
      RawProduct("Pack", "pack", Desc, 25, PyStr("course"), PyNone, PyNone),
      RawProduct("Cover", "cover", Desc, 10, PyNone, PyNone,
                 PyStr("https://example.com/c.png")),
      RawProduct("Free", "free", Desc, 0 - 1, PyNone, PyNone, PyNone),
      RawProduct("Tiny", "tiny", "too short", 5, PyNone, PyNone, PyNone),
      RawProduct("ab", "abc", Desc, 5, PyStr("book"), PyNone, PyStr("c.png")) }

Slugs == {"intro", "pack", "none"}

OrderInputs ==
    [product_id : {"p1", "p2"}, email : {"a@b.c"}, amount : {5},
     status : {PyNone, PyStr("pending"), PyStr("paid"), PyStr("failed"),
               PyStr("refunded")},
     download_url : {PyNone, PyStr("https://cdn.example.com/f.zip"),
                     PyStr("f.zip")}]

CategoryParams == {PyNone, PyStr(""), PyStr("course")}
LevelParams == {PyNone, PyStr(""), PyStr("beginner")}
MinPrices == {NoNum, PyNum(0), PyNum(10)}
MaxPrices == {NoNum, PyNum(0), PyNum(20)}
Limits == {0, 1, DefaultLimit}

Init ==
    /\ db = 0
    /\ nclient = 0
    /\ product = <<>>
    /\ order = <<>>
    /\ req = [op |-> "none"]
    /\ resp = Response(0, <<>>)
    /\ pc = [p \in Procs |-> "idle"]
    /\ local = [p \in Procs |-> [handle |-> 0]]
    /\ env = [k \in {"BEEHIIV_API_KEY", "BEEHIIV_PUBLICATION_ID",
                     "RAZORPAY_KEY_ID", "RAZORPAY_KEY_SECRET"} |-> PyNone]
    /\ calls = 0

\* every handler of backend/main.py; list_products with a few queries only
Next ==
    \/ Test
    \/ \E raw \in ProductInputs, now \in Times : CreateProduct(raw, now)
    \/ \E c \in {PyNone, PyStr("course")}, hi \in {NoNum, PyNum(20)} :
          ListProducts(c, NoNum, hi, PyNone, DefaultLimit)
    \/ \E slug \in Slugs : GetProduct(slug)
    \/ \E raw \in OrderInputs, now \in Times : Checkout(raw, now)

Spec == Init /\ [][Next]_vars

\* the catalog alone at one clock reading, list_products with every
\* combination of parameters
NextCatalog ==
    \/ \E raw \in ProductInputs : CreateProduct(raw, 1)
    \/ \E c \in CategoryParams, lo \in MinPrices, hi \in MaxPrices,
          l \in LevelParams, n \in Limits : ListProducts(c, lo, hi, l, n)
    \/ \E slug \in Slugs : GetProduct(slug)

SpecCatalog == Init /\ [][NextCatalog]_vars

(***************************************************************************)
(* Claims about the store handlers.                                        *)
(***************************************************************************)
Docs(coll) == {coll[i] : i \in 1..Len(coll)}

\* the Product fields of a stored or returned document
ProductFields(d) ==
    [title |-> d.title, slug |-> d.slug, description |-> d.description,
     price |-> d.price, category |-> d.category, level |-> d.level,
     cover_url |-> d.cover_url]

\* C1: every stored order has status "paid"; every order a checkout returns
\* has status "paid" and is the order it stored; and a valid payload without
\* download_url is stored and returned so whatever status it submits.
C1_OrdersPaid ==
    /\ \A d \in Docs(order) : d.status = "paid"
    /\ (req.op = "checkout" /\ resp.status = 200) =>
          /\ resp.docs[1].status = "paid"
          /\ order # <<>>
          /\ resp.docs[1] = Stringified(order[Len(order)])
    /\ (req.op = "checkout" /\ OrderOk(req.raw)
            /\ req.raw.download_url.t = "None") => resp.status = 200

C1_Witness ==
    /\ req.op = "checkout"
    /\ req.raw.status = PyStr("failed")
    /\ resp.status = 200
    /\ order[Len(order)].status = "paid"

\* C2 as stated: whatever was created before, get-product-by-slug returns
\* each stored product, field for field, when asked for its slug.
C2_RoundTripAnyHistory ==
    req.op = "get_product" =>
        \A d \in Docs(product) :
            d.slug = req.slug =>
                /\ resp.status = 200
                /\ ProductFields(resp.docs[1]) = ProductFields(d)

OnlyOneWithSlug(slug) ==
    Cardinality({i \in 1..Len(product) : product[i].slug = slug}) = 1

\* C2 amended: a successful create-product stores and returns the fields of
\* the Product it was given, with the identifier and two timestamps; and
\* get-product-by-slug returns a stored product unchanged (identifier as a
\* string) when it is the only stored product with that slug.
C2_RoundTripUniqueSlug ==
    /\ (req.op = "create_product" /\ resp.status = 200) =>
          /\ product # <<>>
          /\ ProductFields(product[Len(product)]) = ProductDump(req.raw)
          /\ resp.docs[1] = Stringified(product[Len(product)])
          /\ DOMAIN resp.docs[1] =
                DOMAIN ProductDump(req.raw) \cup {"_id", "created_at", "updated_at"}
    /\ req.op = "get_product" =>
          \A d \in Docs(product) :
              (d.slug = req.slug /\ OnlyOneWithSlug(req.slug)) =>
                  resp = Response(200, <<Stringified(d)>>)

C2_Witness ==
    /\ req.op = "get_product"
    /\ resp.status = 200
    /\ OnlyOneWithSlug(req.slug)
    /\ Len(product) >= 2

\* C6: get-product-by-slug answers 404 with no product exactly when no
\* stored product has the slug, else 200 with one stored product of that
\* slug; and the request changes neither collection.
C6_State ==
    req.op = "get_product" =>
        IF \A d \in Docs(product) : d.slug # req.slug
        THEN resp = Response(404, <<>>)
        ELSE /\ resp.status = 200
             /\ Len(resp.docs) = 1
             /\ resp.docs[1].slug = req.slug
             /\ \E d \in Docs(product) : resp.docs[1] = Stringified(d)

C6_GetBySlug ==
    /\ []C6_State
    /\ [][req'.op = "get_product" => UNCHANGED <<product, order>>]_vars

C6_Witness ==
    /\ req.op = "get_product"
    /\ resp.status = 404
    /\ product # <<>>

Given(param) == param.t # "None"

\* C7 as stated: every returned product meets each parameter that is given.
C7_ListMatchesGiven ==
    req.op = "list_products" =>
        \A i \in 1..Len(resp.docs) :
            LET d == resp.docs[i]
            IN  /\ Given(req.min_price) => req.min_price.v <= d.price
                /\ Given(req.max_price) => d.price <= req.max_price.v
                /\ Given(req.category) => d.category = req.category.v
                /\ Given(req.level) =>
                      (d.level.t = "str" /\ d.level.v = req.level.v)

\* C7 amended: every returned product is a stored product that meets each
\* price bound that is given (0 included) and the category and level that
\* are given and not the empty string.
C7_ListMatchesNonEmpty ==
    req.op = "list_products" =>
        \A i \in 1..Len(resp.docs) :
            LET d == resp.docs[i]
            IN  /\ \E s \in Docs(product) : d = Stringified(s)
                /\ Given(req.min_price) => req.min_price.v <= d.price
                /\ Given(req.max_price) => d.price <= req.max_price.v
                /\ (Given(req.category) /\ req.category.v # "") =>
                      d.category = req.category.v
                /\ (Given(req.level) /\ req.level.v # "") =>
                      (d.level.t = "str" /\ d.level.v = req.level.v)

C7_Witness ==
    /\ req.op = "list_products"
    /\ req.min_price = PyNum(10)
    /\ req.max_price = PyNum(20)
    /\ Len(resp.docs) = 1
    /\ Len(product) >= 2

\* C8 as stated: a valid checkout is stored and returned with the supplied
\* download_url, or with the prefix and product_id when none is supplied.
C8_DownloadUrl ==
    (req.op = "checkout" /\ OrderOk(req.raw)) =>
        LET want == IF req.raw.download_url.t = "None"
                    THEN DownloadPrefix \o req.raw.product_id
                    ELSE req.raw.download_url.v
        IN  /\ resp.status = 200
            /\ resp.docs[1].download_url.v = want
            /\ order[Len(order)].download_url.v = want

\* C10: every stored document has created_at and updated_at, equal; and no
\* step changes or removes a stored document: each collection only grows.
C10_Stamped ==
    \A d \in Docs(product) \cup Docs(order) :
        /\ {"created_at", "updated_at", "_id"} \subseteq DOMAIN d
        /\ d.created_at = d.updated_at

IsPrefix(s, t) == Len(s) <= Len(t) /\ SubSeq(t, 1, Len(s)) = s

C10_AppendOnly ==
    /\ []C10_Stamped
    /\ [][IsPrefix(product, product') /\ IsPrefix(order, order')]_vars

C10_Witness ==
    /\ req.op = "list_products"
    /\ Len(product) >= 1
    /\ Len(order) >= 1

(***************************************************************************)
(* Requests in flight together.  The handlers of backend/main.py are       *)
(* coroutines on one event loop: a coroutine runs alone until it awaits    *)
(* something that suspends it.  "await get_db()" does not suspend (get_db  *)
(* holds no await), insert_one and the cursor do.  One action per run      *)
(* between suspensions.                                                    *)
(***************************************************************************)
NoLocals == [handle |-> 0]

ConnInputs == {raw \in ProductInputs : ProductOk(raw) /\ raw.slug \in {"intro", "cover"}}

\* create_product, create_document up to "await ...insert_one(payload)"
StartCreate(p, raw, now) ==
    LET g == get_db(db, nclient)
    IN  /\ pc[p] = "idle"
        /\ ProductOk(raw)
        /\ db' = g[1]
        /\ nclient' = g[2]
        /\ pc' = [pc EXCEPT ![p] = "insert_one"]
        /\ local' = [local EXCEPT ![p] =
                        [handle |-> g[1], raw |-> raw,
                         payload |-> Stamp(ProductDump(raw), now)]]
        /\ UNCHANGED <<product, order, req, resp, env, calls>>

\* insert_one completes on the handle the coroutine holds; the handler returns
InsertReturns(p) ==
    LET payload == local[p].payload
        oid == ObjectId(product, order)
    IN  /\ pc[p] = "insert_one"
        /\ IF BsonEncodable(payload)
           THEN /\ Len(product) + Len(order) < MaxDocs
                /\ product' = Append(product, WithId(payload, oid))
                /\ resp' = Response(200, <<WithId(payload, StrId(oid))>>)
           ELSE /\ product' = product
                /\ resp' = Response(500, <<>>)
        /\ req' = [op |-> "create_product", raw |-> local[p].raw]
        /\ pc' = [pc EXCEPT ![p] = "idle"]
        /\ local' = [local EXCEPT ![p] = NoLocals]
        /\ UNCHANGED <<db, nclient, order, env, calls>>

\* get_product, get_documents up to the "async for" over the cursor
StartGet(p, slug) ==
    LET g == get_db(db, nclient)
    IN  /\ pc[p] = "idle"
        /\ db' = g[1]
        /\ nclient' = g[2]
        /\ pc' = [pc EXCEPT ![p] = "find"]
        /\ local' = [local EXCEPT ![p] = [handle |-> g[1], slug |-> slug]]
        /\ UNCHANGED <<product, order, req, resp, env, calls>>

\* the cursor is read; the handler returns
FindReturns(p) ==
    LET items == get_documents(product, SlugFilter(local[p].slug), 1)
    IN  /\ pc[p] = "find"
        /\ req' = [op |-> "get_product", slug |-> local[p].slug]
        /\ resp' = IF NotFound(items) THEN Response(404, <<>>)
                   ELSE Response(200, <<items[1]>>)
        /\ pc' = [pc EXCEPT ![p] = "idle"]
        /\ local' = [local EXCEPT ![p] = NoLocals]
        /\ UNCHANGED <<db, nclient, product, order, env, calls>>

NextConn ==
    \/ \E p \in Procs, raw \in ConnInputs : StartCreate(p, raw, 1)
    \/ \E p \in Procs : InsertReturns(p)
    \/ \E p \in Procs, slug \in {"intro", "none"} : StartGet(p, slug)
    \/ \E p \in Procs : FindReturns(p)

SpecConn == Init /\ [][NextConn]_vars

\* C9: at most one client is ever constructed; _db is None or the handle of
\* that one client; every coroutine past its get_db call holds that handle;
\* and no step replaces a handle that is set.
C9_Handles ==
    /\ nclient <= 1
    /\ db = nclient
    /\ \A p \in Procs : pc[p] # "idle" => (local[p].handle = db /\ db # 0)

C9_EstablishOnce ==
    /\ []C9_Handles
    /\ [][db # 0 => db' = db]_vars

\* two requests past get_db before any store operation has completed
C9_Witness ==
    /\ \A p \in {1, 2} : pc[p] # "idle" /\ local[p].handle = 1
    /\ product = <<>>
    /\ req.op = "none"

(***************************************************************************)
(* src/main.py: the mailing and payment adapters, one action per handler.  *)
(* FastAPI validates the body against the request model before it calls    *)
(* the handler.                                                            *)
(***************************************************************************)
EnvKeys == {"BEEHIIV_API_KEY", "BEEHIIV_PUBLICATION_ID",
            "RAZORPAY_KEY_ID", "RAZORPAY_KEY_SECRET"}

\* os.getenv(name): None when unset, else the string, which may be empty
getenv(name) == env[name]

\* "if api_key is None": an empty secret passes
IsUnset(x) == x.t = "None"

\* "if not api_key": unset or empty
NotSet(x) == ~Truthy(x)

Reply(status, kind) == [status |-> status, kind |-> kind]

\* EmailStr: something, an "@", something
EmailOk(s) == \E i \in 2..(Len(s) - 1) : SubSeq(s, i, i) = "@"

\* class SubscribeRequest
SubscribeOk(raw) == raw.email.t = "str" /\ EmailOk(raw.email.v)

\* class CreateUPIOrderRequest: amount_inr: int = Field(..., ge=1)
CreateOrderOk(raw) == raw.amount_inr >= 1

\* class VerifyRazorpaySignatureRequest: three required strings
VerifyOk(raw) ==
    raw.order_id.t = "str" /\ raw.payment_id.t = "str" /\ raw.signature.t = "str"

\* What requests.post(..., timeout=10) does: returns a response (status code,
\* body JSON or not) or raises.  ConnectTimeout and ReadTimeout are
\* requests.Timeout; every exception here is a requests.RequestException.
Raised == {"ReadTimeout", "ConnectTimeout", "ConnectionError"}
Outcomes ==
    [kind : {"response"}, status : {200, 201, 400, 502, 504}, json : BOOLEAN]
        \cup [kind : Raised, status : {0}, json : {FALSE}]

IsTimeout(exc) == exc \in {"ReadTimeout", "ConnectTimeout"}
IsRequestException(exc) ==
    exc \in {"ReadTimeout", "ConnectTimeout", "ConnectionError", "JSONDecodeError"}

\* the except clauses with requests.RequestException first
OnExceptionGenericFirst(exc) ==
    IF IsRequestException(exc) THEN Reply(502, "bad_gateway")
    ELSE IF IsTimeout(exc) THEN Reply(504, "timeout")
    ELSE Reply(500, "internal")

\* the except clauses, in their order: requests.Timeout, then
\* requests.RequestException; anything else leaves the handler (a 500)
OnException(exc) ==
    IF IsTimeout(exc) THEN Reply(504, "timeout")
    ELSE IF IsRequestException(exc) THEN Reply(502, "bad_gateway")
    ELSE Reply(500, "internal")

\* subscribe: the try block
SubscribeTry(out) ==
    IF out.kind = "response"
    THEN IF out.status \in {200, 201} THEN Reply(200, "ok")
         ELSE Reply(out.status, "forwarded")
    ELSE OnException(out.kind)

\* create_upi_order: the try block.  raise_for_status raises HTTPError for
\* a 4xx or 5xx; r.json() on a body that is not JSON raises
\* requests.JSONDecodeError (a RequestException) or, before requests 2.27,
\* a plain ValueError.
CreateOrderTry(out, exc) ==
    IF out.kind = "response"
    THEN IF out.status >= 400 THEN Reply(out.status, "forwarded")
         ELSE IF out.json THEN Reply(200, "ok")
         ELSE OnException(exc)
    ELSE OnException(out.kind)

Subscribe(raw, out) ==
    /\ req' = [op |-> "subscribe", raw |-> raw, out |-> out]
    /\ IF ~SubscribeOk(raw)
       THEN resp' = Reply(422, "validation") /\ calls' = 0
       ELSE IF NotSet(getenv("BEEHIIV_API_KEY"))
                \/ NotSet(getenv("BEEHIIV_PUBLICATION_ID"))
       THEN resp' = Reply(500, "not_configured") /\ calls' = 0
       ELSE resp' = SubscribeTry(out) /\ calls' = 1
    /\ UNCHANGED <<db, nclient, product, order, pc, local, env>>

CreateUpiOrder(raw, out) ==
    /\ req' = [op |-> "create_upi_order", raw |-> raw, out |-> out]
    /\ IF ~CreateOrderOk(raw)
       THEN resp' = Reply(422, "validation") /\ calls' = 0
       ELSE IF NotSet(getenv("RAZORPAY_KEY_ID"))
                \/ NotSet(getenv("RAZORPAY_KEY_SECRET"))
       THEN resp' = Reply(500, "not_configured") /\ calls' = 0
       ELSE /\ \E exc \in {"JSONDecodeError", "ValueError"} :
                  resp' = CreateOrderTry(out, exc)
            /\ calls' = 1
    /\ UNCHANGED <<db, nclient, product, order, pc, local, env>>

\* hmac.new(key, msg, sha256).hexdigest(), idealised: distinct (key, message)
\* pairs have distinct digests, and a digest is ASCII
HmacSha256Hex(key, msg) == "hmac[" \o key \o "](" \o msg \o ")"

\* f"{payload.order_id}|{payload.payment_id}"
SignedMessage(order_id, payment_id) == order_id \o "|" \o payment_id

\* model strings that stand for a string with a character outside ASCII
NonAscii == {"s<U+00E9>g"}
IsAscii(s) == s \notin NonAscii

VerifyRazorpaySignature(raw) ==
    /\ req' = [op |-> "verify_signature", raw |-> raw, out |-> "none"]
    /\ calls' = 0
    /\ IF ~VerifyOk(raw)
       THEN resp' = Reply(422, "validation")
       ELSE IF NotSet(getenv("RAZORPAY_KEY_SECRET"))
       THEN resp' = Reply(500, "not_configured")
       ELSE LET generated ==
                    HmacSha256Hex(getenv("RAZORPAY_KEY_SECRET").v,
                                  SignedMessage(raw.order_id.v, raw.payment_id.v))
            IN  \* hmac.compare_digest raises TypeError on a non-ASCII str
                IF ~IsAscii(raw.signature.v)
                THEN resp' = Reply(500, "internal")
                ELSE IF generated = raw.signature.v
                THEN resp' = Reply(200, "valid")
                ELSE resp' = Reply(400, "invalid")
    /\ UNCHANGED <<db, nclient, product, order, pc, local, env>>

(***************************************************************************)
(* The adapters' environment and requests.                                 *)
(***************************************************************************)
Secrets == {"s1", "s2"}
EnvValues(k) ==
    {PyNone, PyStr("")} \cup
        (IF k = "RAZORPAY_KEY_SECRET" THEN {PyStr(x) : x \in Secrets}
         ELSE {PyStr("key")})

SubscribeInputs ==
    [email : {PyStr("a@b.co"), PyStr("nobody"), PyNone},
     source : {PyNone, PyStr("footer")}]

CreateOrderInputs ==
    [amount_inr : {0, 49900}, receipt : {PyNone, PyStr("r1")}]

OrderIds == {"o1", "o1|x"}
PaymentIds == {"p1", "x|p1"}
Signatures ==
    {HmacSha256Hex(k, SignedMessage(o, q)) :
        k \in Secrets, o \in OrderIds, q \in PaymentIds}
        \cup {HmacSha256Hex("s1", "o1p1"), HmacSha256Hex("s1", "p1|o1"), ""}
        \cup NonAscii

VerifyInputs ==
    [order_id : {PyStr(o) : o \in OrderIds},
     payment_id : {PyStr(q) : q \in PaymentIds},
     signature : {PyStr(x) : x \in Signatures} \cup {PyNone}]

InitAdapters ==
    /\ db = 0
    /\ nclient = 0
    /\ product = <<>>
    /\ order = <<>>
    /\ req = [op |-> "none"]
    /\ resp = Reply(0, "none")
    /\ pc = [p \in Procs |-> "idle"]
    /\ local = [p \in Procs |-> NoLocals]
    /\ env \in {e \in [EnvKeys -> UNION {EnvValues(k) : k \in EnvKeys}] :
                   \A k \in EnvKeys : e[k] \in EnvValues(k)}
    /\ calls = 0

NextAdapters ==
    \/ \E raw \in SubscribeInputs, out \in Outcomes : Subscribe(raw, out)
    \/ \E raw \in CreateOrderInputs, out \in Outcomes : CreateUpiOrder(raw, out)
    \/ \E raw \in VerifyInputs : VerifyRazorpaySignature(raw)

SpecAdapters == InitAdapters /\ [][NextAdapters]_vars

(***************************************************************************)
(* Claims about the adapters.                                              *)
(***************************************************************************)
SecretMissing(k) == env[k].t = "None" \/ env[k].v = ""

MailSecretMissing ==
    SecretMissing("BEEHIIV_API_KEY") \/ SecretMissing("BEEHIIV_PUBLICATION_ID")
PaySecretMissing ==
    SecretMissing("RAZORPAY_KEY_ID") \/ SecretMissing("RAZORPAY_KEY_SECRET")

CallerMissesSecret ==
    \/ req.op = "subscribe" /\ MailSecretMissing
    \/ req.op = "create_upi_order" /\ PaySecretMissing

BodyOk ==
    \/ req.op = "subscribe" /\ SubscribeOk(req.raw)
    \/ req.op = "create_upi_order" /\ CreateOrderOk(req.raw)

\* C3 as stated: with a secret missing, subscribe and create-order answer
\* 500 Configuration-Error and make no outbound call, whatever the body.
C3_ConfigErrorAnyBody ==
    CallerMissesSecret => (resp = Reply(500, "not_configured") /\ calls = 0)

\* C3 amended: with a secret missing (unset or empty) no outbound call is
\* made; a valid body is answered 500 Configuration-Error, an invalid body
\* 422 Validation-Error.
C3_ConfigErrorValidBody ==
    CallerMissesSecret =>
        /\ calls = 0
        /\ resp = IF BodyOk THEN Reply(500, "not_configured")
                  ELSE Reply(422, "validation")

C3_Witness ==
    /\ req.op = "subscribe"
    /\ SubscribeOk(req.raw)
    /\ env["BEEHIIV_API_KEY"] = PyStr("key")
    /\ env["BEEHIIV_PUBLICATION_ID"] = PyStr("")
    /\ req.out.kind = "response"
    /\ resp.status = 500

\* C4 as stated: with the secret configured the answer is {valid: true}
\* exactly for the hex HMAC-SHA256 of order_id|payment_id under the secret
\* and 400 {valid: false} for every other signature; without the secret it
\* is 500 Configuration-Error for every signature.
C4_VerifySignature ==
    (req.op = "verify_signature" /\ VerifyOk(req.raw)) =>
        IF SecretMissing("RAZORPAY_KEY_SECRET")
        THEN resp = Reply(500, "not_configured")
        ELSE IF req.raw.signature.v =
                    HmacSha256Hex(env["RAZORPAY_KEY_SECRET"].v,
                                  req.raw.order_id.v \o "|" \o req.raw.payment_id.v)
        THEN resp = Reply(200, "valid")
        ELSE resp = Reply(400, "invalid")

TimedOut == req.out.kind \in {"ReadTimeout", "ConnectTimeout"}

====
